---- MODULE Spec2Model ----
(***************************************************************************)
(* Model of src/commands/git.rs of devx: the three git workflows sync,     *)
(* switch and delete, each a straight-line sequence of git_exec calls and  *)
(* interactive prompts, run against an abstract git repository.            *)
(*                                                                         *)
(* git_exec returns Err only when the git process cannot be launched; a    *)
(* launched command that exits with a failure status is returned as Ok.    *)
(* Every call site applies `?`, so only a launch error leaves a workflow   *)
(* early; the exit status is read at two call sites only (the two          *)
(* rev-parse checks of sync).                                              *)
(***************************************************************************)
EXTENDS Integers, Sequences, FiniteSets, TLC

(***************************************************************************)
(* Bounds of the model.                                                    *)
(***************************************************************************)
\* number of successive invocations of sync in one behaviour of SpecRepeat
MaxRuns == 2
\* number of stash entries the user may already have before the first run
MaxPreStash == 1
\* number of commits the upstream branch may be ahead of the local branch
MaxAhead == 1

(***************************************************************************)
(* The abstract repository.                                                *)
(***************************************************************************)
\* local branch names; git lists them in this (alphabetical) order
NameOrder == <<"feature-x", "main">>
BranchNames == {NameOrder[i] : i \in 1..Len(NameOrder)}
\* HEAD when it points at no branch; git lists it as "* (HEAD detached at ..)"
Detached == "(HEAD detached at c0)"

\* uncommitted changes: an edit of a tracked file, a new untracked file, and
\* an edit held by a stash entry the user made before running the tool
TrackedChanges == {"edit", "old-edit"}
UntrackedChanges == {"newfile"}

\* the three results of one git_exec call: the process could not be launched
\* (Err), it ran and exited with a failure status, it ran and exited with 0
LaunchErr == "launch_err"
ExitFail == "exit_fail"
ExitOk == "exit_ok"

VARIABLES
    env,                    \* [gitFound, inRepo, hasUpstream, remote]
    repo,                   \* [branches, head, wt, idx, stash, commit]
    wf,                     \* workflow being run: "none", "sync", "switch", "delete"
    pc,                     \* position of the running workflow
    local_changes_stashed,  \* the flag of sync and switch
    current_branch,         \* first component of get_branch_info's result
    other_branches,         \* second component of get_branch_info's result
    selected,               \* new_branch of switch, branch_to_delete of delete
    latest_commit,          \* what this run of sync reported (<<>>: nothing)
    prev_report,            \* what the run before this one reported, if a sync
    result,                 \* "none" while running, then "ok", "err" or "panic"
    hist,                   \* the git commands and prompts of this run, in order
    pre,                    \* repo as it was when this run was invoked
    runs                    \* number of invocations so far

vars == <<env, repo, wf, pc, local_changes_stashed, current_branch,
          other_branches, selected, latest_commit, prev_report, result, hist,
          pre, runs>>

(***************************************************************************)
(* Sequence helpers.                                                       *)
(***************************************************************************)
Range(s) == {s[i] : i \in 1..Len(s)}

RECURSIVE SeqOfSet(_)
SeqOfSet(S) == IF S = {} THEN <<>>
               ELSE LET x == CHOOSE y \in S : TRUE
                    IN <<x>> \o SeqOfSet(S \ {x})

(***************************************************************************)
(* What git does.  Each operator gives the repository after a command that *)
(* ran; a command that could not be launched changes nothing.              *)
(***************************************************************************)
\* stdout of `git status --porcelain`: one line per changed or untracked path
GitStatusOut(r) == r.wt \cup r.idx

\* `git add .`: everything in the working tree becomes staged
GitAdd(r) == [r EXCEPT !.idx = r.idx \cup r.wt, !.wt = {}]

\* what `git stash` saves: staged changes and edits of tracked files
Stashable(r) == r.idx \cup (r.wt \cap TrackedChanges)

\* `git stash`: pushes one entry holding the stashable changes and cleans them
\* out of index and working tree; with nothing stashable it pushes nothing
GitStash(r) ==
    IF Stashable(r) = {} THEN r
    ELSE [r EXCEPT !.stash = <<[by |-> "devx", chg |-> Stashable(r)]>> \o r.stash,
                   !.idx = {},
                   !.wt = r.wt \ TrackedChanges]

\* `git stash pop` (without --index): the top entry's edits of tracked files
\* return unstaged, its added files return staged; the entry is dropped
GitStashPop(r) ==
    LET e == Head(r.stash)
    IN [r EXCEPT !.stash = Tail(r.stash),
                 !.wt = r.wt \cup (e.chg \cap TrackedChanges),
                 !.idx = r.idx \cup (e.chg \cap UntrackedChanges)]

\* `git stash clear`: drops every entry of the stash list
GitStashClear(r) == [r EXCEPT !.stash = <<>>]

\* `git reset`: unstages everything, the content stays in the working tree
GitReset(r) == [r EXCEPT !.wt = r.wt \cup r.idx, !.idx = {}]

\* `git pull --rebase`: the local branch takes the upstream commits
GitPull(r, e) == [r EXCEPT !.commit = e.remote]

\* `git checkout <name>`
GitCheckout(r, name) == [r EXCEPT !.head = name]

\* `git branch -D <name>`
GitBranchDelete(r, name) == [r EXCEPT !.branches = r.branches \ {name}]

\* stdout of `git log -1 --oneline`
GitLogOut(r) == r.commit

\* one line of `git branch --no-color`, as the characters that matter to the
\* parser: a two-character prefix ("* " for the current branch) and the name
BranchLine(r, name) == <<IF name = r.head THEN "*" ELSE " ", " ", name>>

\* stdout of `git --no-pager branch --no-color`: the detached HEAD line first,
\* then the local branches in order; an unborn HEAD has no line at all
GitBranchOut(r) ==
    (IF r.head = Detached THEN <<BranchLine(r, Detached)>> ELSE <<>>)
    \o [i \in 1..Len(SelectSeq(NameOrder, LAMBDA n : n \in r.branches)) |->
          BranchLine(r, SelectSeq(NameOrder, LAMBDA n : n \in r.branches)[i])]

\* the results a command can have in repository r: any command may fail to
\* launch, and git refuses what the repository does not allow
Outcomes(args, r, e) ==
    {LaunchErr} \cup
    CASE args = <<"rev-parse", "--git-dir">> ->
             IF e.inRepo THEN {ExitOk} ELSE {ExitFail}
      [] args = <<"rev-parse", "--abbrev-ref", "--symbolic-full-name", "@{u}">> ->
             IF e.hasUpstream THEN {ExitOk} ELSE {ExitFail}
      [] args = <<"--no-pager", "branch", "--no-color">> ->
             IF e.inRepo THEN {ExitOk} ELSE {ExitFail}
      [] args = <<"pull", "--rebase">> ->
             IF Stashable(r) = {} THEN {ExitOk, ExitFail} ELSE {ExitFail}
      [] args = <<"stash", "pop">> ->
             IF r.stash = <<>> THEN {ExitFail} ELSE {ExitOk, ExitFail}
      [] args[1] = "checkout" ->
             IF args[2] \in r.branches THEN {ExitOk, ExitFail} ELSE {ExitFail}
      [] args[1] = "branch" ->
             IF args[3] \in r.branches /\ args[3] # r.head
             THEN {ExitOk, ExitFail} ELSE {ExitFail}
      [] OTHER -> {ExitOk, ExitFail}

\* the repository after git ran args with result out
GitRun(args, out, r, e) ==
    IF out # ExitOk THEN r
    ELSE CASE args = <<"add", ".">> -> GitAdd(r)
           [] args = <<"stash">> -> GitStash(r)
           [] args = <<"stash", "pop">> -> GitStashPop(r)
           [] args = <<"stash", "clear">> -> GitStashClear(r)
           [] args = <<"reset">> -> GitReset(r)
           [] args = <<"pull", "--rebase">> -> GitPull(r, e)
           [] args[1] = "checkout" -> GitCheckout(r, args[2])
           [] args[1] = "branch" -> GitBranchDelete(r, args[3])
           [] OTHER -> r

\* what a captured command prints
GitStdout(args, out, r) ==
    IF out # ExitOk THEN <<>>
    ELSE CASE args = <<"status", "--porcelain">> -> SeqOfSet(GitStatusOut(r))
           [] args = <<"log", "-1", "--oneline">> -> <<GitLogOut(r)>>
           [] args = <<"--no-pager", "branch", "--no-color">> -> GitBranchOut(r)
           [] OTHER -> <<>>

(***************************************************************************)
(* git_exec: Err exactly when the process could not be launched; otherwise *)
(* Ok with the exit status and, when capturing, the output.                *)
(***************************************************************************)
git_exec(args, out, r, capture_output) ==
    [is_ok   |-> out # LaunchErr,
     success |-> out = ExitOk,
     stdout  |-> IF capture_output THEN GitStdout(args, out, r) ELSE <<>>]

\* the part of a git_exec call common to all call sites: the command is
\* recorded and the repository takes its effect
Run(args, out) ==
    /\ out \in Outcomes(args, repo, env)
    /\ hist' = Append(hist, [cmd |-> args, out |-> out])
    /\ repo' = GitRun(args, out, repo, env)

\* `git_exec(args, .., ..)?;` with the result otherwise ignored: an Err
\* leaves the workflow with that error, an Ok of any exit status goes on to
\* next; the next "done" is the function's final Ok(())
ExecTry(args, next) ==
    \E out \in {LaunchErr, ExitFail, ExitOk} :
        /\ Run(args, out)
        /\ IF git_exec(args, out, repo, FALSE).is_ok
           THEN pc' = next /\ result' = (IF next = "done" THEN "ok" ELSE result)
           ELSE pc' = "done" /\ result' = "err"

(***************************************************************************)
(* get_branch_info: the parse of the branch listing.  A line is a sequence *)
(* of characters " ", "*" and one name.                                    *)
(***************************************************************************)
RECURSIVE TrimStart(_)
TrimStart(l) == IF l # <<>> /\ Head(l) = " " THEN TrimStart(Tail(l)) ELSE l

RECURSIVE TrimEnd(_)
TrimEnd(l) == IF l # <<>> /\ l[Len(l)] = " "
              THEN TrimEnd(SubSeq(l, 1, Len(l) - 1)) ELSE l

Trim(l) == TrimEnd(TrimStart(l))

StartsWithStar(l) == l # <<>> /\ Head(l) = "*"

RECURSIVE TrimStartMatchesStar(_)
TrimStartMatchesStar(l) ==
    IF StartsWithStar(l) THEN TrimStartMatchesStar(Tail(l)) ELSE l

\* the string a parsed line stands for: its characters, joined
RECURSIVE to_string(_)
to_string(l) == IF l = <<>> THEN "" ELSE Head(l) \o to_string(Tail(l))

AllBranches(stdout) == [i \in 1..Len(stdout) |-> Trim(stdout[i])]

\* CurrentBranch with the find predicate negated: the first line without the
\* marker is taken as current
CurrentBranch_FirstUnmarked(stdout) ==
    LET all == AllBranches(stdout)
        unstarred == SelectSeq(all, LAMBDA b : ~StartsWithStar(b))
    IN IF unstarred # <<>>
       THEN to_string(Trim(TrimStartMatchesStar(Head(unstarred))))
       ELSE "main"

CurrentBranch(stdout) ==
    LET all == AllBranches(stdout)
        starred == SelectSeq(all, StartsWithStar)
    IN IF starred # <<>>
       THEN to_string(Trim(TrimStartMatchesStar(Head(starred))))
       ELSE "main"

OtherBranches(stdout) ==
    LET all == AllBranches(stdout)
        others == SelectSeq(all, LAMBDA b : ~StartsWithStar(b))
    IN [i \in 1..Len(others) |-> to_string(Trim(others[i]))]

(***************************************************************************)
(* Initial states: a repository git can be in, no workflow running.        *)
(***************************************************************************)
\* the stash lists a user may have before the first run
PreStashes == {[i \in 1..n |-> [by |-> "user", chg |-> {"old-edit"}]] : n \in 0..MaxPreStash}

\* HEAD is a listed branch, detached, or an unborn branch (a name that is not
\* a branch yet, as after `git checkout --orphan`)
Repos ==
    {r \in [branches : SUBSET BranchNames,
            head     : BranchNames \cup {Detached},
            wt       : SUBSET ({"edit"} \cup UntrackedChanges),
            idx      : SUBSET {"edit"},
            stash    : PreStashes,
            commit   : {0}] :
        r.head = Detached => r.branches # {}}

\* outside a work tree there is nothing to list, change or stash
NoRepo == [branches |-> {}, head |-> "main", wt |-> {}, idx |-> {},
           stash |-> <<>>, commit |-> 0]

Init ==
    /\ env \in [gitFound : BOOLEAN, inRepo : BOOLEAN, hasUpstream : BOOLEAN,
                remote : 0..MaxAhead]
    /\ env.inRepo \/ ~env.hasUpstream
    /\ env.hasUpstream \/ env.remote = 0
    /\ repo \in Repos
    /\ ~env.inRepo => repo = NoRepo
    /\ wf = "none"
    /\ pc = "idle"
    /\ local_changes_stashed = FALSE
    /\ current_branch = ""
    /\ other_branches = <<>>
    /\ selected = ""
    /\ latest_commit = <<>>
    /\ prev_report = <<>>
    /\ result = "none"
    /\ hist = <<>>
    /\ pre = repo
    /\ runs = 0

(***************************************************************************)
(* GitCommands::execute: one invocation of the tool runs one workflow.     *)
(***************************************************************************)
execute(w) ==
    /\ pc \in {"idle", "done"}
    /\ runs < MaxRuns
    /\ runs' = runs + 1
    /\ wf' = w
    /\ pc' = CASE w = "sync" -> "sync_which"
               [] w = "switch" -> "switch_which"
               [] w = "delete" -> "delete_which"
    /\ local_changes_stashed' = FALSE
    /\ current_branch' = ""
    /\ other_branches' = <<>>
    /\ selected' = ""
    /\ result' = "none"
    /\ hist' = <<>>
    /\ pre' = repo
    /\ latest_commit' = <<>>
    /\ prev_report' = IF wf = "sync" THEN latest_commit ELSE <<>>
    /\ UNCHANGED <<env, repo>>

\* Which without the expect: a missing git is not noticed here
Which_Unchecked(at, next) ==
    /\ pc = at
    /\ pc' = next /\ result' = result
    /\ UNCHANGED <<env, repo, wf, local_changes_stashed, current_branch,
                   other_branches, selected, latest_commit, hist, pre, prev_report, runs>>

\* which("git").expect(..): panics when git is not on the PATH
Which(at, next) ==
    /\ pc = at
    /\ IF env.gitFound
       THEN pc' = next /\ result' = result
       ELSE pc' = "done" /\ result' = "panic"
    /\ UNCHANGED <<env, repo, wf, local_changes_stashed, current_branch,
                   other_branches, selected, latest_commit, hist, pre, prev_report, runs>>

(***************************************************************************)
(* ChangeGuard, as sync and switch both spell it out.  `at` is the         *)
(* position of the step and `next` the position that follows it.           *)
(***************************************************************************)
\* GuardStatus without the `if !git_status.stdout.is_empty()` test: the
\* stash branch is always taken
GuardStatus_AlwaysStash(at, stashing, body) ==
    /\ pc = at
    /\ \E out \in {LaunchErr, ExitFail, ExitOk} :
        LET args == <<"status", "--porcelain">>
            git_status == git_exec(args, out, repo, TRUE)
        IN /\ Run(args, out)
           /\ IF ~git_status.is_ok
              THEN pc' = "done" /\ result' = "err"
              ELSE /\ result' = result
                   /\ pc' = stashing
    /\ local_changes_stashed' = FALSE
    /\ UNCHANGED <<env, wf, current_branch, other_branches, selected,
                   latest_commit, pre, prev_report, runs>>

\* let mut local_changes_stashed = false; status --porcelain; the stash
\* branch is taken when the captured output is not empty
GuardStatus(at, stashing, body) ==
    /\ pc = at
    /\ \E out \in {LaunchErr, ExitFail, ExitOk} :
        LET args == <<"status", "--porcelain">>
            git_status == git_exec(args, out, repo, TRUE)
        IN /\ Run(args, out)
           /\ IF ~git_status.is_ok
              THEN pc' = "done" /\ result' = "err"
              ELSE /\ result' = result
                   /\ pc' = IF git_status.stdout # <<>> THEN stashing ELSE body
    /\ local_changes_stashed' = FALSE
    /\ UNCHANGED <<env, wf, current_branch, other_branches, selected,
                   latest_commit, pre, prev_report, runs>>

\* a step of the guard that leaves the flag alone: add, pop, clear, reset
GuardStep(at, args, next) ==
    /\ pc = at
    /\ ExecTry(args, next)
    /\ UNCHANGED <<env, wf, local_changes_stashed, current_branch,
                   other_branches, selected, latest_commit, pre, prev_report, runs>>

\* GuardStash without the assignment local_changes_stashed = true
GuardStash_FlagNotSet(at, body) ==
    /\ pc = at
    /\ ExecTry(<<"stash">>, body)
    /\ local_changes_stashed' = local_changes_stashed
    /\ UNCHANGED <<env, wf, current_branch, other_branches, selected,
                   latest_commit, pre, prev_report, runs>>

\* git stash, then local_changes_stashed = true unless the call was an Err
GuardStash(at, body) ==
    /\ pc = at
    /\ ExecTry(<<"stash">>, body)
    /\ local_changes_stashed' = (pc' = body)
    /\ UNCHANGED <<env, wf, current_branch, other_branches, selected,
                   latest_commit, pre, prev_report, runs>>

(***************************************************************************)
(* sync                                                                    *)
(***************************************************************************)
SyncWhich == Which("sync_which", "sync_check_repo")

\* SyncCheck without the `if !status.success()` early return
SyncCheck_StatusIgnored(at, args, next) ==
    /\ pc = at
    /\ \E out \in {LaunchErr, ExitFail, ExitOk} :
        LET check == git_exec(args, out, repo, TRUE)
        IN /\ Run(args, out)
           /\ IF ~check.is_ok THEN pc' = "done" /\ result' = "err"
              ELSE pc' = next /\ result' = result
    /\ UNCHANGED <<env, wf, local_changes_stashed, current_branch,
                   other_branches, selected, latest_commit, pre, prev_report, runs>>

\* one of the two checks of sync that read the exit status: a failure status
\* prints "nothing to sync" and returns Ok(())
SyncCheck(at, args, next) ==
    /\ pc = at
    /\ \E out \in {LaunchErr, ExitFail, ExitOk} :
        LET check == git_exec(args, out, repo, TRUE)
        IN /\ Run(args, out)
           /\ IF ~check.is_ok THEN pc' = "done" /\ result' = "err"
              ELSE IF ~check.success THEN pc' = "done" /\ result' = "ok"
              ELSE pc' = next /\ result' = result
    /\ UNCHANGED <<env, wf, local_changes_stashed, current_branch,
                   other_branches, selected, latest_commit, pre, prev_report, runs>>

SyncCheckRepo ==
    SyncCheck("sync_check_repo", <<"rev-parse", "--git-dir">>, "sync_check_upstream")

SyncCheckUpstream ==
    SyncCheck("sync_check_upstream",
              <<"rev-parse", "--abbrev-ref", "--symbolic-full-name", "@{u}">>,
              "sync_status")

\* SyncStatus continuing at the pull: the fetch is left out
SyncStatus_NoFetch == GuardStatus("sync_status", "sync_add", "sync_pull")

SyncStatus == GuardStatus("sync_status", "sync_add", "sync_fetch")

SyncAdd == GuardStep("sync_add", <<"add", ".">>, "sync_stash")

SyncStash == GuardStash("sync_stash", "sync_fetch")

SyncFetch == GuardStep("sync_fetch", <<"fetch", "-p">>, "sync_pull")

SyncPull == GuardStep("sync_pull", <<"pull", "--rebase">>, "sync_log")

\* SyncLog without the `if local_changes_stashed` test: the restoration
\* always runs
SyncLog_AlwaysRestore ==
    /\ pc = "sync_log"
    /\ \E out \in {LaunchErr, ExitFail, ExitOk} :
        LET args == <<"log", "-1", "--oneline">>
            git_log_output == git_exec(args, out, repo, TRUE)
        IN /\ Run(args, out)
           /\ IF ~git_log_output.is_ok
              THEN pc' = "done" /\ result' = "err" /\ latest_commit' = latest_commit
              ELSE /\ latest_commit' = git_log_output.stdout
                   /\ pc' = "sync_pop" /\ result' = result
    /\ UNCHANGED <<env, wf, local_changes_stashed, current_branch,
                   other_branches, selected, pre, prev_report, runs>>

\* log -1 --oneline, the report of its trimmed output, and the test of the
\* flag that decides whether the restoration runs
SyncLog ==
    /\ pc = "sync_log"
    /\ \E out \in {LaunchErr, ExitFail, ExitOk} :
        LET args == <<"log", "-1", "--oneline">>
            git_log_output == git_exec(args, out, repo, TRUE)
        IN /\ Run(args, out)
           /\ IF ~git_log_output.is_ok
              THEN pc' = "done" /\ result' = "err" /\ latest_commit' = latest_commit
              ELSE /\ latest_commit' = git_log_output.stdout
                   /\ IF local_changes_stashed
                      THEN pc' = "sync_pop" /\ result' = result
                      ELSE pc' = "done" /\ result' = "ok"
    /\ UNCHANGED <<env, wf, local_changes_stashed, current_branch,
                   other_branches, selected, pre, prev_report, runs>>

SyncPop == GuardStep("sync_pop", <<"stash", "pop">>, "sync_clear")

SyncClear == GuardStep("sync_clear", <<"stash", "clear">>, "sync_reset")

SyncReset == GuardStep("sync_reset", <<"reset">>, "done")

(***************************************************************************)
(* get_branch_info and the callers' test of other_branches.is_empty()      *)
(***************************************************************************)
\* get_branch_info whose callers lack the is_empty() early return
get_branch_info_NoEmptyCheck(at, next) ==
    /\ pc = at
    /\ \E out \in {LaunchErr, ExitFail, ExitOk} :
        LET args == <<"--no-pager", "branch", "--no-color">>
            git_output == git_exec(args, out, repo, TRUE)
        IN /\ Run(args, out)
           /\ IF ~git_output.is_ok
              THEN /\ pc' = "done" /\ result' = "err"
                   /\ UNCHANGED <<current_branch, other_branches>>
              ELSE /\ current_branch' = CurrentBranch(git_output.stdout)
                   /\ other_branches' = OtherBranches(git_output.stdout)
                   /\ pc' = next /\ result' = result
    /\ UNCHANGED <<env, wf, local_changes_stashed, selected, latest_commit,
                   pre, prev_report, runs>>

get_branch_info(at, next) ==
    /\ pc = at
    /\ \E out \in {LaunchErr, ExitFail, ExitOk} :
        LET args == <<"--no-pager", "branch", "--no-color">>
            git_output == git_exec(args, out, repo, TRUE)
        IN /\ Run(args, out)
           /\ IF ~git_output.is_ok
              THEN /\ pc' = "done" /\ result' = "err"
                   /\ UNCHANGED <<current_branch, other_branches>>
              ELSE /\ current_branch' = CurrentBranch(git_output.stdout)
                   /\ other_branches' = OtherBranches(git_output.stdout)
                   /\ IF other_branches' = <<>>
                      THEN pc' = "done" /\ result' = "ok"
                      ELSE pc' = next /\ result' = result
    /\ UNCHANGED <<env, wf, local_changes_stashed, selected, latest_commit,
                   pre, prev_report, runs>>

\* SelectPrompt without the `return Ok(())` of the cancellation arm: a
\* cancelled prompt goes on with the first branch of the list
SelectPrompt_CancelGoesOn(at, next) ==
    /\ pc = at
    /\ \E answer \in {<<"answered", other_branches[i]>> : i \in 1..Len(other_branches)}
                     \cup {<<"canceled", "">>, <<"error", "">>} :
        /\ hist' = Append(hist, [cmd |-> <<"prompt", "select">>, out |-> answer[1]])
        /\ IF answer[1] = "answered"
           THEN selected' = answer[2] /\ pc' = next /\ result' = result
           ELSE IF answer[1] = "canceled" /\ other_branches # <<>>
           THEN selected' = other_branches[1] /\ pc' = next /\ result' = result
           ELSE selected' = selected /\ pc' = "done" /\ result' = "ok"
    /\ UNCHANGED <<env, repo, wf, local_changes_stashed, current_branch,
                   other_branches, latest_commit, pre, prev_report, runs>>

\* SelectPrompt whose catch-all arm Err(e) propagates the error instead of
\* returning Ok(())
SelectPrompt_ErrorPropagates(at, next) ==
    /\ pc = at
    /\ \E answer \in {<<"answered", other_branches[i]>> : i \in 1..Len(other_branches)}
                     \cup {<<"canceled", "">>, <<"error", "">>} :
        /\ hist' = Append(hist, [cmd |-> <<"prompt", "select">>, out |-> answer[1]])
        /\ IF answer[1] = "answered"
           THEN selected' = answer[2] /\ pc' = next /\ result' = result
           ELSE /\ selected' = selected /\ pc' = "done"
                /\ result' = IF answer[1] = "error" THEN "err" ELSE "ok"
    /\ UNCHANGED <<env, repo, wf, local_changes_stashed, current_branch,
                   other_branches, latest_commit, pre, prev_report, runs>>

\* Select::new(.., other_branches).prompt(): a branch of the list, a
\* cancellation or another error; the last two return Ok(())
SelectPrompt(at, next) ==
    /\ pc = at
    /\ \E answer \in {<<"answered", other_branches[i]>> : i \in 1..Len(other_branches)}
                     \cup {<<"canceled", "">>, <<"error", "">>} :
        /\ hist' = Append(hist, [cmd |-> <<"prompt", "select">>, out |-> answer[1]])
        /\ IF answer[1] = "answered"
           THEN selected' = answer[2] /\ pc' = next /\ result' = result
           ELSE selected' = selected /\ pc' = "done" /\ result' = "ok"
    /\ UNCHANGED <<env, repo, wf, local_changes_stashed, current_branch,
                   other_branches, latest_commit, pre, prev_report, runs>>

(***************************************************************************)
(* switch                                                                  *)
(***************************************************************************)
SwitchWhich == Which("switch_which", "switch_branch_info")

SwitchBranchInfo == get_branch_info("switch_branch_info", "switch_select")

SwitchSelect == SelectPrompt("switch_select", "switch_status")

SwitchStatus == GuardStatus("switch_status", "switch_add", "switch_checkout")

SwitchAdd == GuardStep("switch_add", <<"add", ".">>, "switch_stash")

\* SwitchStash with the guard placed before the selection prompt
SwitchStash_BeforePrompt == GuardStash("switch_stash", "switch_select")

SwitchStash == GuardStash("switch_stash", "switch_checkout")

\* checkout <new_branch>, then the test of the flag
SwitchCheckout ==
    GuardStep("switch_checkout", <<"checkout", selected>>,
              IF local_changes_stashed THEN "switch_pop" ELSE "done")

SwitchPop == GuardStep("switch_pop", <<"stash", "pop">>, "switch_clear")

SwitchClear == GuardStep("switch_clear", <<"stash", "clear">>, "switch_reset")

SwitchReset == GuardStep("switch_reset", <<"reset">>, "done")

(***************************************************************************)
(* delete                                                                  *)
(***************************************************************************)
DeleteWhich == Which("delete_which", "delete_branch_info")

DeleteBranchInfo == get_branch_info("delete_branch_info", "delete_select")

DeleteSelect == SelectPrompt("delete_select", "delete_confirm")

\* DeleteConfirm with the match arm Ok(_) in place of Ok(true): an answered
\* prompt deletes whatever the answer
DeleteConfirm_AnyAnswer ==
    /\ pc = "delete_confirm"
    /\ \E confirm \in {"yes", "no", "canceled", "error"} :
        /\ hist' = Append(hist, [cmd |-> <<"prompt", "confirm">>, out |-> confirm])
        /\ IF confirm \in {"yes", "no"}
           THEN pc' = "delete_branch" /\ result' = result
           ELSE pc' = "done" /\ result' = "ok"
    /\ UNCHANGED <<env, repo, wf, local_changes_stashed, current_branch,
                   other_branches, selected, latest_commit, pre, prev_report, runs>>

\* Confirm::new("are you sure?").with_default(false).prompt(): only Ok(true)
\* goes on to branch -D; every other result prints and returns Ok(())
DeleteConfirm ==
    /\ pc = "delete_confirm"
    /\ \E confirm \in {"yes", "no", "canceled", "error"} :
        /\ hist' = Append(hist, [cmd |-> <<"prompt", "confirm">>, out |-> confirm])
        /\ IF confirm = "yes"
           THEN pc' = "delete_branch" /\ result' = result
           ELSE pc' = "done" /\ result' = "ok"
    /\ UNCHANGED <<env, repo, wf, local_changes_stashed, current_branch,
                   other_branches, selected, latest_commit, pre, prev_report, runs>>

\* DeleteBranch passing the first listed branch instead of the selected one
DeleteBranch_FirstListed ==
    GuardStep("delete_branch", <<"branch", "-D", other_branches[1]>>, "done")

DeleteBranch == GuardStep("delete_branch", <<"branch", "-D", selected>>, "done")

(***************************************************************************)
(* The specification.                                                      *)
(***************************************************************************)
\* one invocation of the tool: the process runs one workflow and exits
Next ==
    \/ \E w \in {"sync", "switch", "delete"} : runs = 0 /\ execute(w)
    \/ SyncWhich \/ SyncCheckRepo \/ SyncCheckUpstream
    \/ SyncStatus \/ SyncAdd \/ SyncStash
    \/ SyncFetch \/ SyncPull \/ SyncLog
    \/ SyncPop \/ SyncClear \/ SyncReset
    \/ SwitchWhich \/ SwitchBranchInfo \/ SwitchSelect
    \/ SwitchStatus \/ SwitchAdd \/ SwitchStash \/ SwitchCheckout
    \/ SwitchPop \/ SwitchClear \/ SwitchReset
    \/ DeleteWhich \/ DeleteBranchInfo \/ DeleteSelect
    \/ DeleteConfirm \/ DeleteBranch

Spec == Init /\ [][Next]_vars

\* sync invoked again and again, up to MaxRuns times, on the repository the
\* run before left behind; sync does not look at the branches
InitRepeat == Init /\ repo.branches = {"main"} /\ repo.head = "main"

NextRepeat ==
    \/ execute("sync")
    \/ SyncWhich \/ SyncCheckRepo \/ SyncCheckUpstream
    \/ SyncStatus \/ SyncAdd \/ SyncStash
    \/ SyncFetch \/ SyncPull \/ SyncLog
    \/ SyncPop \/ SyncClear \/ SyncReset

SpecRepeat == InitRepeat /\ [][NextRepeat]_vars

(***************************************************************************)
(* Vocabulary of the properties.                                           *)
(***************************************************************************)
Pop == <<"stash", "pop">>
Clear == <<"stash", "clear">>
Reset == <<"reset">>
SelectCmd == <<"prompt", "select">>
ConfirmCmd == <<"prompt", "confirm">>
ListCmd == <<"--no-pager", "branch", "--no-color">>
StatusCmd == <<"status", "--porcelain">>
LogCmd == <<"log", "-1", "--oneline">>
CheckRepoCmd == <<"rev-parse", "--git-dir">>
CheckUpstreamCmd == <<"rev-parse", "--abbrev-ref", "--symbolic-full-name", "@{u}">>

IsPrompt(c) == c[1] = "prompt"
IsBranchDelete(c) == Len(c) = 3 /\ c[1] = "branch" /\ c[2] = "-D"
IsRestoration(c) == c \in {Pop, Clear, Reset}
\* add, stash, checkout, stash pop, stash clear, reset, branch -D
IsMutating(c) == c[1] \in {"add", "stash", "checkout", "reset"} \/ IsBranchDelete(c)

Issued(c) == \E i \in 1..Len(hist) : hist[i].cmd = c
Launched(c) == \E i \in 1..Len(hist) : hist[i].cmd = c /\ hist[i].out # LaunchErr
Exited == pc = "done"
Guarded == wf \in {"sync", "switch"}
\* sync or switch ran to its "complete" message: it returned Ok(()) after
\* the guard's status query (the earlier Ok(()) returns are the clean exits)
Completed == Exited /\ result = "ok" /\ Launched(<<"status", "--porcelain">>)
\* the uncommitted changes of a repository, staged or not
Uncommitted(r) == r.wt \cup r.idx

\* C1: in sync and switch, whenever local changes were stashed, the
\* restoration sequence stash pop, stash clear, reset is attempted before the
\* workflow exits, on every exit path (each step of the sequence is issued
\* unless the step before it could not even be launched).
C1_RestorationOnEveryExit ==
    (Guarded /\ Exited /\ local_changes_stashed) =>
        /\ Issued(Pop)
        /\ Launched(Pop) => Issued(Clear)
        /\ Launched(Clear) => Issued(Reset)

\* C2: after sync or switch completes successfully on a repository that had
\* uncommitted changes, those changes are back in the working tree, nothing
\* is staged and no stash entry of the workflow remains.
C2_ContentPreserved ==
    (Guarded /\ Completed /\ Uncommitted(pre) # {}) =>
        /\ repo.wt = Uncommitted(pre)
        /\ repo.idx = {}
        /\ \A i \in 1..Len(repo.stash) : repo.stash[i].by # "devx"

\* C3: a launched fetch, pull, checkout or branch -D that returns a failure
\* exit status aborts the workflow: only restoration commands follow it and
\* the workflow ends as a hard failure.
C3_ExitFailureAborts ==
    \A i \in 1..Len(hist) :
        (/\ hist[i].out = ExitFail
         /\ \/ hist[i].cmd[1] \in {"fetch", "pull", "checkout"}
            \/ IsBranchDelete(hist[i].cmd)) =>
            /\ \A j \in (i + 1)..Len(hist) : IsRestoration(hist[j].cmd)
            /\ Exited => result = "err"

\* C4: when a restoration command of sync or switch returns a failure exit
\* status, the workflow does not end with a success result.
C4_PartialRestoreIsFailure ==
    (/\ Guarded /\ Exited
     /\ \E i \in 1..Len(hist) : IsRestoration(hist[i].cmd) /\ hist[i].out = ExitFail) =>
        result # "ok"

\* C5: in delete, branch -D is issued only right after the confirmation
\* prompt answered yes, and for the selected branch; after any other
\* confirmation result the workflow has ended cleanly, has issued no mutating
\* command and has left the repository as it was.
C5_DeleteOnlyOnYes ==
    wf = "delete" =>
        /\ \A i \in 1..Len(hist) :
             IsBranchDelete(hist[i].cmd) =>
                /\ i > 1
                /\ hist[i - 1] = [cmd |-> ConfirmCmd, out |-> "yes"]
                /\ hist[i].cmd[3] = selected
        /\ \A i \in 1..Len(hist) :
             (hist[i].cmd = ConfirmCmd /\ hist[i].out # "yes") =>
                /\ i = Len(hist)
                /\ Exited /\ result = "ok"
                /\ \A j \in 1..Len(hist) : ~IsMutating(hist[j].cmd)
                /\ repo = pre

C5_Witness ==
    /\ wf = "delete" /\ Exited
    /\ hist # <<>>
    /\ hist[Len(hist)] = [cmd |-> ConfirmCmd, out |-> "canceled"]

\* C6: cancelling the branch-selection prompt of switch or delete ends the
\* workflow cleanly with the repository (branch, stash list, working tree,
\* index) as it was before the workflow started.
C6_SelectCancelKeepsRepo ==
    \A i \in 1..Len(hist) :
        hist[i] = [cmd |-> SelectCmd, out |-> "canceled"] =>
            /\ i = Len(hist)
            /\ Exited /\ result = "ok"
            /\ repo = pre

C6_Witness ==
    /\ wf = "switch" /\ Exited
    /\ Uncommitted(repo) # {}
    /\ hist # <<>>
    /\ hist[Len(hist)] = [cmd |-> SelectCmd, out |-> "canceled"]

\* C7: when the repository has no branch other than the current one, a
\* switch or delete whose listing ran ends cleanly right after the listing:
\* no prompt and no other command follows it.
C7_NothingToDo ==
    (/\ wf \in {"switch", "delete"}
     /\ Launched(ListCmd)
     /\ pre.branches \ {pre.head} = {}) =>
        /\ Exited /\ result = "ok"
        /\ Len(hist) = 1
        /\ other_branches = <<>>
        /\ repo = pre

C7_Witness ==
    /\ wf = "delete" /\ Exited /\ result = "ok"
    /\ Launched(ListCmd)
    /\ pre.branches = {pre.head}
    /\ Uncommitted(pre) # {}

\* the listing of repository r carries the current-branch marker on a line
HasMarker(r) == \E i \in 1..Len(GitBranchOut(r)) : "*" \in Range(GitBranchOut(r)[i])

\* C8 as stated: for every branch listing, the fallback to "main" included,
\* the name reported as current is not among the branches offered to delete.
C8_CurrentNeverOffered ==
    (wf = "delete" /\ Launched(ListCmd)) =>
        current_branch \notin Range(other_branches)

\* C8 amended: the branch HEAD points at is never offered, and whenever a
\* line of the listing carries the marker the name reported as current is not
\* among the branches offered; without a marker the reported name is "main".
C8_MarkedCurrentNeverOffered ==
    (wf = "delete" /\ Launched(ListCmd)) =>
        /\ pre.head \notin Range(other_branches)
        /\ (env.inRepo /\ HasMarker(pre)) =>
              /\ current_branch = pre.head
              /\ current_branch \notin Range(other_branches)
        /\ ~(env.inRepo /\ HasMarker(pre)) => current_branch = "main"

C8_Witness ==
    /\ wf = "delete" /\ Launched(ListCmd)
    /\ HasMarker(pre)
    /\ pre.head = "feature-x"
    /\ other_branches = <<"main">>

\* C9: in sync, when one of the two rev-parse checks returns a failure exit
\* status the workflow ends there with a success result: the check is the
\* last command issued.
C9_ChecksExitCleanly ==
    wf = "sync" =>
        \A i \in 1..Len(hist) :
            (hist[i].cmd[1] = "rev-parse" /\ hist[i].out = ExitFail) =>
                /\ i = Len(hist)
                /\ Exited /\ result = "ok"
                /\ repo = pre

C9_Witness ==
    /\ wf = "sync" /\ Exited
    /\ Len(hist) = 2
    /\ hist[2].cmd[1] = "rev-parse" /\ hist[2].out = ExitFail
    /\ Uncommitted(repo) # {}

\* C10: after delete issued branch -D for the selected branch and it
\* succeeded, a new listing no longer has that branch, while the current
\* branch and every other branch are as before.
C10_DeletedBranchGone ==
    (/\ wf = "delete"
     /\ \E i \in 1..Len(hist) : IsBranchDelete(hist[i].cmd) /\ hist[i].out = ExitOk) =>
        /\ selected \in pre.branches
        /\ selected \notin Range(OtherBranches(GitBranchOut(repo)))
        /\ CurrentBranch(GitBranchOut(repo)) = CurrentBranch(GitBranchOut(pre))
        /\ repo.head = pre.head
        /\ repo.branches = pre.branches \ {selected}

C10_Witness ==
    /\ wf = "delete" /\ Exited /\ result = "ok"
    /\ hist # <<>>
    /\ hist[Len(hist)] = [cmd |-> <<"branch", "-D", "feature-x">>, out |-> ExitOk]
    /\ repo.branches = {"main"}

\* add, stash, stash pop, stash clear, reset
IsStashActivity(c) == c[1] \in {"add", "stash", "reset"}
NoStashActivity == \A i \in 1..Len(hist) : ~IsStashActivity(hist[i].cmd)
\* this run started on a clean working tree with nothing new upstream
CleanAndUpToDate == Uncommitted(pre) = {} /\ env.remote = pre.commit

\* C11: sync on a clean working tree with nothing new upstream issues no
\* stash activity and leaves the repository as it found it (so the state
\* after a first and a second such run is the same), and when the run
\* before it was a sync that reported a commit, it reports the same commit
\* (its log command having succeeded too).
C11_SyncIdempotent ==
    (wf = "sync" /\ CleanAndUpToDate) =>
        /\ NoStashActivity
        /\ repo = pre
        /\ (prev_report # <<>> /\ Launched(LogCmd) /\ latest_commit # <<>>) =>
              latest_commit = prev_report

C11_Witness ==
    /\ runs = 2 /\ wf = "sync" /\ Exited /\ result = "ok"
    /\ CleanAndUpToDate
    /\ prev_report # <<>>
    /\ hist[Len(hist)] = [cmd |-> <<"log", "-1", "--oneline">>, out |-> ExitOk]
    /\ latest_commit = <<pre.commit>>
    /\ pre.stash # <<>>

\* C12: the flag is true only after a stash command that succeeded and
\* pushed the workflow's own entry onto the stash list.
C12_FlagOnlyAfterSuccessfulStash ==
    (Guarded /\ local_changes_stashed) =>
        /\ \E i \in 1..Len(hist) : hist[i] = [cmd |-> <<"stash">>, out |-> ExitOk]
        /\ hist[Len(hist)].cmd = <<"stash">> =>
              /\ Len(repo.stash) = Len(pre.stash) + 1
              /\ Head(repo.stash).by = "devx"

\* a prompt of this run ended without an answer: cancelled, or failed
PromptEnded(i, how) == IsPrompt(hist[i].cmd) /\ hist[i].out = how

\* C13: in switch and delete a prompt failure other than a cancellation
\* ends the workflow as a cancellation does: at once, with a success result,
\* no mutating command issued and the repository as it was; the commands
\* issued before the prompt are the same in both cases.
C13_PromptErrorAsCancel ==
    \A i \in 1..Len(hist) :
        (PromptEnded(i, "error") \/ PromptEnded(i, "canceled")) =>
            /\ i = Len(hist)
            /\ Exited /\ result = "ok"
            /\ \A j \in 1..Len(hist) : ~IsMutating(hist[j].cmd)
            /\ repo = pre
            /\ hist[1] = [cmd |-> ListCmd, out |-> hist[1].out]
            /\ \A j \in 2..(i - 1) : hist[j] = [cmd |-> SelectCmd, out |-> "answered"]

C13_Witness ==
    /\ wf = "delete" /\ Exited
    /\ Len(hist) = 3
    /\ PromptEnded(3, "error")
    /\ Uncommitted(repo) # {}

\* C14: when git is not found, a workflow that was invoked issues no git
\* command and shows no prompt, and it ends by the panic of the lookup.
C14_MissingGitFailsFast ==
    (~env.gitFound /\ wf # "none") =>
        /\ hist = <<>>
        /\ pc \in {"sync_which", "switch_which", "delete_which", "done"}
        /\ Exited => result = "panic"
        /\ repo = pre

C14_Witness ==
    /\ ~env.gitFound /\ wf = "delete" /\ Exited /\ result = "panic"
    /\ repo.branches = BranchNames

\* every issue of a command that satisfies A precedes every issue of one
\* that satisfies B
Precedes(A(_), B(_)) ==
    \A j \in 1..Len(hist) :
        B(hist[j].cmd) => \A i \in j..Len(hist) : ~A(hist[i].cmd)

\* the commands of this run so far follow the order of the sequence s
FollowsOrder(s) ==
    /\ Len(hist) <= Len(s)
    /\ \A i \in 1..Len(hist) : hist[i].cmd = s[i]
\* the run issued exactly the commands of s
IssuedExactly(s) == Len(hist) = Len(s) /\ FollowsOrder(s)

\* the commands of a sync that found nothing to stash, of one that stashed,
\* and of one that stashed and read the log after the restoration
SyncClean == <<CheckRepoCmd, CheckUpstreamCmd, StatusCmd,
               <<"fetch", "-p">>, <<"pull", "--rebase">>, LogCmd>>
SyncStashing == <<CheckRepoCmd, CheckUpstreamCmd, StatusCmd,
                  <<"add", ".">>, <<"stash">>,
                  <<"fetch", "-p">>, <<"pull", "--rebase">>, LogCmd,
                  Pop, Clear, Reset>>
SyncStashingLogLast == <<CheckRepoCmd, CheckUpstreamCmd, StatusCmd,
                         <<"add", ".">>, <<"stash">>,
                         <<"fetch", "-p">>, <<"pull", "--rebase">>,
                         Pop, Clear, Reset, LogCmd>>

\* C15 as stated: sync runs the checks, then fetch before pull, both after
\* any stash and before any restoration, and the log read comes after the
\* restoration when changes were stashed.
C15_ReportAfterRestoration ==
    wf = "sync" => (FollowsOrder(SyncClean) \/ FollowsOrder(SyncStashingLogLast))

\* C15 amended: as above, but the log read comes after the pull and before
\* the restoration; a sync that ran to its end issued the whole sequence.
C15_ReportBeforeRestoration ==
    wf = "sync" =>
        /\ FollowsOrder(SyncClean) \/ FollowsOrder(SyncStashing)
        /\ Completed => (IssuedExactly(SyncClean) \/ IssuedExactly(SyncStashing))

C15_Witness ==
    /\ wf = "sync" /\ Exited /\ result = "ok"
    /\ Len(hist) = 11
    /\ hist[6].cmd = <<"fetch", "-p">>
    /\ hist[8].cmd = LogCmd
    /\ hist[9].cmd = Pop
    /\ repo.commit = 1

\* status --porcelain of this run printed something
StatusNonEmpty ==
    /\ Uncommitted(pre) # {}
    /\ \E i \in 1..Len(hist) : hist[i] = [cmd |-> StatusCmd, out |-> ExitOk]

\* the protected step of the running workflow
ProtectedStep == IF wf = "sync" THEN <<<<"fetch", "-p">>, <<"pull", "--rebase">>, LogCmd>>
                 ELSE <<<<"checkout", selected>>>>
\* what precedes the guard: the two checks of sync, listing and prompt of switch
BeforeGuard == <<hist[1].cmd, hist[2].cmd>>
GuardStashing == BeforeGuard \o <<StatusCmd, <<"add", ".">>, <<"stash">>>>
                 \o ProtectedStep \o <<Pop, Clear, Reset>>
GuardIdle == BeforeGuard \o <<StatusCmd>> \o ProtectedStep

\* C16: in sync and switch the status query comes first; exactly when its
\* output is non-empty, add and stash are issued, in that order, before the
\* protected step, and pop, clear, reset after it, in that order; when the
\* output is empty none of the five is issued.  (A command that cannot be
\* launched ends the run, so the order is read up to the point reached.)
C16_GuardOrder ==
    (Guarded /\ Issued(StatusCmd)) =>
        /\ hist[3].cmd = StatusCmd
        /\ IF StatusNonEmpty
           THEN /\ FollowsOrder(GuardStashing)
                /\ Completed => IssuedExactly(GuardStashing)
           ELSE /\ FollowsOrder(GuardIdle)
                /\ Completed => IssuedExactly(GuardIdle)
                /\ NoStashActivity

C16_Witness ==
    /\ wf = "switch" /\ Exited /\ result = "ok"
    /\ Len(hist) = 9
    /\ hist[4].cmd = <<"add", ".">>
    /\ hist[9] = [cmd |-> Reset, out |-> ExitOk]
    /\ repo.head # pre.head

\* a selection or confirmation prompt is about to be shown
PromptPending == pc \in {"switch_select", "delete_select", "delete_confirm"}

\* C17: while a prompt is pending nothing has been staged or stashed and the
\* flag is false; no guard command precedes a prompt; delete never issues
\* one.
C17_NoPromptWhileStashed ==
    /\ PromptPending => (NoStashActivity /\ ~local_changes_stashed)
    /\ Precedes(IsPrompt, IsStashActivity)
    /\ wf = "delete" => (NoStashActivity /\ ~local_changes_stashed)

C17_Witness ==
    /\ wf = "switch" /\ pc = "switch_select"
    /\ Uncommitted(repo) # {}
    /\ Len(other_branches) = 2

\* the changes held by the entries of a stash list
Stashed(st) == UNION {st[i].chg : i \in 1..Len(st)}
\* s is the tail end of t
IsSuffix(s, t) == Len(s) <= Len(t) /\ SubSeq(t, Len(t) - Len(s) + 1, Len(t)) = s

\* C18: in every state of sync and switch the changes that were uncommitted
\* when the run started are in the working tree, in the index or in an
\* entry of the stash list.
C18_ChangesNeverLost ==
    Guarded => Uncommitted(pre) \subseteq (Uncommitted(repo) \cup Stashed(repo.stash))

\* C19 as stated: when sync or switch ends, every stash entry that existed
\* before the run is still in the stash list.
C19_OldEntriesKept ==
    (Guarded /\ Exited) => IsSuffix(pre.stash, repo.stash)

\* C19 amended: the earlier entries are kept when the status output was
\* empty, and as long as neither stash pop nor stash clear has succeeded;
\* once stash clear has succeeded the stash list is empty, earlier entries
\* included.
C19_ClearDropsWholeList ==
    Guarded =>
        /\ ~StatusNonEmpty => repo.stash = pre.stash
        /\ (\A i \in 1..Len(hist) : hist[i].cmd \in {Pop, Clear} => hist[i].out # ExitOk) =>
              IsSuffix(pre.stash, repo.stash)
        /\ (\E i \in 1..Len(hist) : hist[i] = [cmd |-> Clear, out |-> ExitOk]) =>
              repo.stash = <<>>

C19_Witness ==
    /\ wf = "sync" /\ Exited /\ result = "ok"
    /\ pre.stash # <<>>
    /\ \A i \in 1..Len(hist) : hist[i].out = ExitOk
    /\ Issued(Clear)
    /\ repo.stash = <<>>
    /\ repo.wt = Uncommitted(pre)

====
